---- MODULE Spec2Model ----
\* Model of the SAP GUI automation wrapper (src/sap_gui.py) and its driver
\* (src/main.py): configuration validation, connection establishment with
\* retries, the login sequence and teardown.  The external application
\* (process table, volumes, scripting engine, windows) is the environment:
\* every call into it has its outcome chosen nondeterministically.
EXTENDS Integers, Sequences, FiniteSets, TLC

\* ------------------------------------------------------------------ bounds
MaxLen == 2          \* longest configuration field drawn in SpecConfig
MaxDrives == 2       \* most logical drives the environment reports
MaxTimeout == 3      \* longest timeout handed to wait_for_element
MaxProbeTime == 1    \* longest time one findById probe takes
MaxProbes == 5       \* probes of wait_for_element followed in one call
MaxRows == 3         \* most rows of the table column set_cell_value scans
MaxLogins == 2       \* most sapLogin calls made on one SapGui object

\* --------------------------------------------------------- program constants
DEFAULT_RETRY_ATTEMPTS == 3
RETRY_DELAY == 1

\* ------------------------------------------------------------------- text
\* A Python str is modelled as a sequence of one-character strings.
UpperChars == <<"A","B","C","D","E","F","G","H","I","J","K","L","M","N","O","P","Q","R","S","T","U","V","W","X","Y","Z","Ú">>
LowerChars == <<"a","b","c","d","e","f","g","h","i","j","k","l","m","n","o","p","q","r","s","t","u","v","w","x","y","z","ú">>
DigitChars == {"0","1","2","3","4","5","6","7","8","9"}

LowerChar(c) ==
  IF \E i \in 1..Len(UpperChars) : UpperChars[i] = c
  THEN LowerChars[CHOOSE i \in 1..Len(UpperChars) : UpperChars[i] = c]
  ELSE c

\* str.lower()
Lower(s) == [i \in 1..Len(s) |-> LowerChar(s[i])]

\* Python's `sub in s` on strings
Contains(sub, s) ==
  \E i \in 0..(Len(s) - Len(sub)) : SubSeq(s, i + 1, i + Len(sub)) = sub

\* str.isdigit(): non-empty and every character a digit
IsDigit(s) == Len(s) > 0 /\ \A i \in 1..Len(s) : s[i] \in DigitChars

\* all strings over alphabet A of length at most n
RECURSIVE StringsUpTo(_, _)
StringsUpTo(A, n) ==
  IF n = 0 THEN {<<>>}
  ELSE LET S == StringsUpTo(A, n - 1)
       IN S \cup {Append(s, c) : s \in {t \in S : Len(t) = n - 1}, c \in A}

\* literals of the source
SAPLOGON_EXE == <<"s","a","p","l","o","g","o","n",".","e","x","e">>
NOVA_SENHA == <<"n","o","v","a"," ","s","e","n","h","a">>
LOGON_MULTIPLO == <<"l","o","g","o","n"," ","m","ú","l","t","i","p","l","o">>

\* ------------------------------------------------------- generate_password
UpperChar(c) ==
  IF \E i \in 1..Len(LowerChars) : LowerChars[i] = c
  THEN UpperChars[CHOOSE i \in 1..Len(LowerChars) : LowerChars[i] = c]
  ELSE c

\* str.capitalize(): first character upper-cased, the rest lower-cased
Capitalize(s) ==
  [i \in 1..Len(s) |-> IF i = 1 THEN UpperChar(s[i]) ELSE LowerChar(s[i])]

DigitOf == <<"0","1","2","3","4","5","6","7","8","9">>

\* the decimal text of a natural number, as an f-string formats it
RECURSIVE Decimal(_)
Decimal(n) ==
  IF n < 10 THEN <<DigitOf[n + 1]>>
  ELSE Append(Decimal(n \div 10), DigitOf[(n % 10) + 1])

\* strftime('%B') under the Portuguese locale and under the system default
MONTHS_PT ==
  <<<<"j","a","n","e","i","r","o">>,
    <<"f","e","v","e","r","e","i","r","o">>,
    <<"m","a","r","ç","o">>,
    <<"a","b","r","i","l">>,
    <<"m","a","i","o">>,
    <<"j","u","n","h","o">>,
    <<"j","u","l","h","o">>,
    <<"a","g","o","s","t","o">>,
    <<"s","e","t","e","m","b","r","o">>,
    <<"o","u","t","u","b","r","o">>,
    <<"n","o","v","e","m","b","r","o">>,
    <<"d","e","z","e","m","b","r","o">>>>
MONTHS_EN ==
  <<<<"J","a","n","u","a","r","y">>,
    <<"F","e","b","r","u","a","r","y">>,
    <<"M","a","r","c","h">>,
    <<"A","p","r","i","l">>,
    <<"M","a","y">>,
    <<"J","u","n","e">>,
    <<"J","u","l","y">>,
    <<"A","u","g","u","s","t">>,
    <<"S","e","p","t","e","m","b","e","r">>,
    <<"O","c","t","o","b","e","r">>,
    <<"N","o","v","e","m","b","e","r">>,
    <<"D","e","c","e","m","b","e","r">>>>

Locales == {"pt_PT", "default"}
strftime_B(loc, t) == IF loc = "pt_PT" THEN MONTHS_PT[t.month] ELSE MONTHS_EN[t.month]
strftime_Y(t) == Decimal(t.year)

\* random.randrange(lo, hi): lo <= n < hi
randrange(lo, hi) == lo..(hi - 1)

\* the instants datetime.now() can return during one call, in order
Clock == <<[month |-> 12, year |-> 2025], [month |-> 1, year |-> 2026]>>

\* generate_password with its draw, the locale in force and the instants of
\* its two datetime.now() calls
generate_password(number, loc, t1, t2) ==
  Decimal(number) \o Capitalize(strftime_B(loc, t1)) \o <<"#">> \o strftime_Y(t2)

\* the draws the driver specification samples from randrange(1, 999)
Draws == randrange(1, 999) \cap {42}

\* --------------------------------------------------------------- SapConfig
get_sap_config ==
  [platform |-> <<"S","A","P"," ","P","R","D">>,
   client   |-> <<"1","1","0">>,
   username |-> <<"R","P","A","_","U","S","E","R">>,
   password |-> <<"D","e","z","e","m","b","r","o","#","2","0","2","4">>,
   language |-> <<"P","T">>,
   path     |-> SAPLOGON_EXE]

\* variant: path left out of the required fields
SapConfig__post_init__no_path(c) ==
  IF ~ (/\ c.platform # <<>> /\ c.client # <<>> /\ c.username # <<>>
        /\ c.password # <<>> /\ c.language # <<>>)
  THEN "All SAP configuration fields are required"
  ELSE IF ~ IsDigit(c.client)
  THEN "SAP client must be numeric"
  ELSE IF Len(c.language) # 2
  THEN "Language code must be 2 characters"
  ELSE "ok"

\* SapConfig.__post_init__: "ok" or the message of the SapConfigError raised
SapConfig__post_init__(c) ==
  IF ~ (/\ c.platform # <<>> /\ c.client # <<>> /\ c.username # <<>>
        /\ c.password # <<>> /\ c.language # <<>> /\ c.path # <<>>)
  THEN "All SAP configuration fields are required"
  ELSE IF ~ IsDigit(c.client)
  THEN "SAP client must be numeric"
  ELSE IF Len(c.language) # 2
  THEN "Language code must be 2 characters"
  ELSE "ok"

\* the configurations SpecConfig draws
Configs ==
  [platform : {<<>>, <<"P">>},
   client   : StringsUpTo({"1", "a"}, MaxLen),
   username : {<<>>, <<"u">>},
   password : {<<>>, <<"p">>},
   language : StringsUpTo({"P"}, MaxLen + 1),
   path     : {<<>>, SAPLOGON_EXE}]

VARIABLES
  pc,              \* position of the driver
  config,          \* the SapConfig handed to SapGui
  configResult,    \* "none", "ok" or the SapConfigError message
  procs,           \* environment: names of the running processes
  drives,          \* environment: the drives the last search enumerated, each
                   \* with whether it holds the executable
  absences,        \* history: attempts begun with the executable neither
                   \* running nor on any drive
  retry_count,     \* _initialize_connection's local
  attempts,        \* history: loop iterations started
  sleeps,          \* history: time slept in time.sleep(RETRY_DELAY)
  searches,        \* history: volume searches made by run_application
  launches,        \* history: subprocess.Popen calls
  SapGuiAuto,      \* attribute: "unset", "None", "dispatch" or "object"
  connection,      \* attribute: "unset", "None" or a connection id
  session,         \* attribute: "unset" or the id of the session's connection
  opened,          \* history: connections OpenConnection returned
  closed,          \* environment: connections whose CloseSession succeeded
  closeCalls,      \* history: CloseSession calls, per connection
  acq,             \* SapGui(...): "none", "returned" or "raised"
  fields,          \* environment: texts written into the login screen's fields
  submitted,       \* history: the passwords on screen at each login submit
  pwdWindow,       \* history: ActiveWindow.Name seen by handle_password_change
  pwdLabel,        \* history: label text handle_password_change read
  ncode,           \* environment: text of wnd[1]/usr/pwdRSYST-NCODE
  ncod2,           \* environment: text of wnd[1]/usr/pwdRSYST-NCOD2
  pwdPressed,      \* history: handle_password_change pressed the confirm button
  pwdProbe,        \* history: its final probe of wnd[0]/tbar[0]/btn[15]
  multiWindow,     \* history: ActiveWindow.Name seen by _handle_multiple_login
  multiText,       \* history: wnd[1].Text read by _handle_multiple_login
  multiSelected,   \* history: radMULTI_LOGON_OPT1 selected
  multiPressed,    \* history: _handle_multiple_login pressed the confirm button
  verifyProbe,     \* history: _verify_login's probe of wnd[0]/tbar[0]/btn[15]
  loginRaised,     \* history: the state of sapLogin in which a call raised
  loginResult,     \* what sapLogin returned: "none", "true" or "false"
  closedByLogin,   \* history: sapLogin's handler called close_connection
  logins,          \* history: sapLogin calls started
  calls,           \* history: sapLogout / close_connection calls, in order
  loggedOut,       \* environment: the logout command was sent
  business,        \* how create_sales_order ended
  escaped,         \* history: teardown calls that raised to their caller
  launchedFrom,    \* history: index of the drive the executable was started from
  wait,            \* one wait_for_element call (SpecWait)
  gen,             \* one generate_password call (SpecPassword)
  cell             \* one set_cell_value call (SpecCell)

loginVars == <<fields, submitted, pwdWindow, pwdLabel, ncode, ncod2, pwdPressed,
               pwdProbe, multiWindow, multiText, multiSelected, multiPressed,
               verifyProbe, loginRaised, loginResult, closedByLogin, logins>>

vars == <<pc, config, configResult, procs, drives, absences, retry_count, attempts,
          sleeps, searches, launches, SapGuiAuto, connection, session,
          opened, closed, closeCalls, acq, loginVars, calls, loggedOut,
          business, escaped, launchedFrom, wait, gen, cell>>

\* the calls of the helpers that the driver does not make
utilVars == <<wait, gen, cell>>

\* everything the driver run consists of
driverVars == <<pc, config, configResult, procs, drives, absences, retry_count,
                attempts, sleeps, searches, launches, SapGuiAuto, connection,
                session, opened, closed, closeCalls, acq, loginVars, calls,
                loggedOut, business, escaped, launchedFrom>>

ConnIds == <<"conn1", "conn2", "conn3", "conn4">>
Conn(i) == ConnIds[i]

\* ---------------------------------------------------------- run_application
\* the process tables the environment starts with: another program alone, or
\* with the executable already running under an upper-case name
ProcessTables ==
  {{<<"n","o","t","e","p","a","d",".","e","x","e">>},
   {<<"n","o","t","e","p","a","d",".","e","x","e">>,
    <<"S","A","P","L","O","G","O","N",".","E","X","E">>}}

\* variant: the names compared as they are
is_process_running_case_sensitive(ps, process_name) ==
  \E p \in ps : Contains(process_name, p)

\* lines 71-75: some process name contains the executable's name, letter case
\* ignored
is_process_running(ps, process_name) ==
  \E p \in ps : Contains(Lower(process_name), Lower(p))

\* the drive lists GetLogicalDriveStrings can return, with the search result
DriveLists == UNION {[1..n -> BOOLEAN] : n \in 0..MaxDrives}

\* index of the first drive holding the executable, 0 when there is none
FirstMatch(ds) ==
  IF \E i \in 1..Len(ds) : ds[i]
  THEN CHOOSE i \in 1..Len(ds) : ds[i] /\ \A j \in 1..(i - 1) : ~ ds[j]
  ELSE 0

run_application(ps, ds, software) ==
  IF is_process_running(ps, software)
  THEN [ret |-> TRUE, procs |-> ps, searched |-> 0, launched |-> 0, from |-> 0]
  ELSE IF FirstMatch(ds) # 0
  THEN [ret |-> TRUE, procs |-> ps \cup {software}, searched |-> 1, launched |-> 1,
        from |-> FirstMatch(ds)]
  ELSE [ret |-> FALSE, procs |-> ps, searched |-> 1, launched |-> 0, from |-> 0]

\* ------------------------------------------------- _initialize_connection
\* what the environment does to one attempt once the executable runs
AttemptOutcomes ==
  {"getobject_raises", "getobject_not_dispatch", "engine_raises",
   "engine_not_dispatch", "open_raises", "children_raises", "resize_raises",
   "ok"}

\* the try body of one loop iteration after run_application succeeded
attempt_body(o, id, auto, conn, sess) ==
  CASE o = "getobject_raises" ->
         [SapGuiAuto |-> auto, connection |-> conn, session |-> sess,
          opened |-> {}, exit |-> "except"]
    [] o = "getobject_not_dispatch" ->
         [SapGuiAuto |-> "object", connection |-> conn, session |-> sess,
          opened |-> {}, exit |-> "return"]
    [] o = "engine_raises" ->
         [SapGuiAuto |-> "dispatch", connection |-> conn, session |-> sess,
          opened |-> {}, exit |-> "except"]
    [] o = "engine_not_dispatch" ->
         [SapGuiAuto |-> "None", connection |-> conn, session |-> sess,
          opened |-> {}, exit |-> "return"]
    [] o = "open_raises" ->
         [SapGuiAuto |-> "dispatch", connection |-> conn, session |-> sess,
          opened |-> {}, exit |-> "except"]
    [] o = "children_raises" ->
         [SapGuiAuto |-> "dispatch", connection |-> id, session |-> sess,
          opened |-> {id}, exit |-> "except"]
    [] o = "resize_raises" ->
         [SapGuiAuto |-> "dispatch", connection |-> id, session |-> id,
          opened |-> {id}, exit |-> "except"]
    [] o = "ok" ->
         [SapGuiAuto |-> "dispatch", connection |-> id, session |-> id,
          opened |-> {id}, exit |-> "return"]

\* variant: the first failure is fatal, no retry
except_clause_no_retry(rc) ==
  [retry_count |-> rc + 1, raise |-> TRUE, sleeps |-> 0]

\* the except clause of the loop: count, raise on the last attempt, else sleep
except_clause(rc) ==
  LET n == rc + 1
  IN [retry_count |-> n,
      raise |-> (n = DEFAULT_RETRY_ATTEMPTS),
      sleeps |-> IF n = DEFAULT_RETRY_ATTEMPTS THEN 0 ELSE RETRY_DELAY]

\* ------------------------------------------------------------------- login
NoText == <<"<not read>">>       \* the text was never read
RaisesText == <<"<raises>">>     \* reading the text raised

\* texts the environment shows in the password dialog's label
LabelTexts ==
  {NOVA_SENHA, <<"N","o","v","a"," ","S","e","n","h","a">>, <<"e","r","r","o">>}
\* texts the environment shows as the secondary window's title
WindowTexts ==
  {LOGON_MULTIPLO, <<"L","o","g","o","n"," ","M","ú","l","t","i","p","l","o">>,
   <<"e","r","r","o">>}
WindowNames == {"wnd[0]", "wnd[1]", "raises"}

EmptyFields == [MANDT |-> <<>>, BNAME |-> <<>>, BCODE |-> <<>>, LANGU |-> <<>>]

\* sapLogin, lines 325-331: four field writes and the submit; k of the five
\* calls complete before one raises (k = 5: none raises)
credentials_entry(k, cfg, f) ==
  [fields |-> [MANDT |-> IF k >= 1 THEN cfg.client ELSE f.MANDT,
               BNAME |-> IF k >= 2 THEN cfg.username ELSE f.BNAME,
               BCODE |-> IF k >= 3 THEN cfg.password ELSE f.BCODE,
               LANGU |-> IF k >= 4 THEN cfg.language ELSE f.LANGU],
   submitted |-> (k >= 5),
   raised |-> (k < 5)]

\* variant: the `not` of the label test lost
prompt_recognised_inverted(lbl) == ~ Contains(NOVA_SENHA, Lower(lbl))

\* handle_password_change, line 283: the label names the new-password prompt
prompt_recognised(lbl) == Contains(NOVA_SENHA, Lower(lbl))

\* variant: the toolbar probe after the settle delay is not consulted
handle_password_change_no_reverify(w, lbl, pw, k, probe) ==
  LET stay == [ret |-> FALSE, raised |-> FALSE, label |-> NoText, ncode |-> <<>>,
               ncod2 |-> <<>>, pressed |-> FALSE, probe |-> "none"]
  IN IF w = "raises" THEN [stay EXCEPT !.raised = TRUE]
     ELSE IF w # "wnd[1]" THEN [stay EXCEPT !.ret = TRUE]
     ELSE IF lbl = RaisesText THEN [stay EXCEPT !.raised = TRUE, !.label = lbl]
     ELSE IF ~ prompt_recognised(lbl) THEN [stay EXCEPT !.label = lbl]
     ELSE [ret |-> (k = 3),
           raised |-> (k < 3),
           label |-> lbl,
           ncode |-> IF k >= 1 THEN pw ELSE <<>>,
           ncod2 |-> IF k >= 2 THEN pw ELSE <<>>,
           pressed |-> (k >= 3),
           probe |-> IF k = 3 THEN probe ELSE "none"]

\* handle_password_change: w is ActiveWindow.Name, lbl the label's text, pw
\* the generated password, k the calls (two writes, press) that complete,
\* probe the outcome of findById("wnd[0]/tbar[0]/btn[15]", False)
handle_password_change(w, lbl, pw, k, probe) ==
  LET stay == [ret |-> FALSE, raised |-> FALSE, label |-> NoText, ncode |-> <<>>,
               ncod2 |-> <<>>, pressed |-> FALSE, probe |-> "none"]
  IN IF w = "raises" THEN [stay EXCEPT !.raised = TRUE]
     ELSE IF w # "wnd[1]" THEN [stay EXCEPT !.ret = TRUE]
     ELSE IF lbl = RaisesText THEN [stay EXCEPT !.raised = TRUE, !.label = lbl]
     ELSE IF ~ prompt_recognised(lbl) THEN [stay EXCEPT !.label = lbl]
     ELSE [ret |-> (k = 3 /\ probe = "found"),
           raised |-> (k < 3 \/ probe = "raises"),
           label |-> lbl,
           ncode |-> IF k >= 1 THEN pw ELSE <<>>,
           ncod2 |-> IF k >= 2 THEN pw ELSE <<>>,
           pressed |-> (k >= 3),
           probe |-> IF k = 3 THEN probe ELSE "none"]

\* variant: the password submitted is stored in the configuration
config_storing_new_password(cfg, r) ==
  IF r.pressed THEN [cfg EXCEPT !.password = r.ncode] ELSE cfg

\* self.config after handle_password_change with outcome r: new_password is a
\* local of the method (lines 286-290) and self.config is not assigned
config_after_password_change(cfg, r) == cfg

\* variant: the except clause answers True
handle_multiple_login_swallow(w, txt, k) ==
  IF w = "raises"
  THEN [ret |-> TRUE, raised |-> TRUE, text |-> NoText, selected |-> FALSE,
        pressed |-> FALSE]
  ELSE IF w # "wnd[1]"
  THEN [ret |-> TRUE, raised |-> FALSE, text |-> NoText, selected |-> FALSE,
        pressed |-> FALSE]
  ELSE IF txt = RaisesText
  THEN [ret |-> TRUE, raised |-> TRUE, text |-> txt, selected |-> FALSE,
        pressed |-> FALSE]
  ELSE IF ~ Contains(LOGON_MULTIPLO, txt)
  THEN [ret |-> TRUE, raised |-> FALSE, text |-> txt, selected |-> FALSE,
        pressed |-> FALSE]
  ELSE [ret |-> TRUE, raised |-> (k < 2), text |-> txt, selected |-> (k >= 1),
        pressed |-> (k >= 2)]

\* _handle_multiple_login: w is ActiveWindow.Name, txt the window's Text, k
\* the calls (select, press) that complete
handle_multiple_login(w, txt, k) ==
  LET stay == [ret |-> TRUE, raised |-> FALSE, text |-> NoText,
               selected |-> FALSE, pressed |-> FALSE]
  IN IF w = "raises" THEN [stay EXCEPT !.ret = FALSE, !.raised = TRUE]
     ELSE IF w # "wnd[1]" THEN stay
     ELSE IF txt = RaisesText
          THEN [stay EXCEPT !.ret = FALSE, !.raised = TRUE, !.text = txt]
     ELSE IF ~ Contains(LOGON_MULTIPLO, txt) THEN [stay EXCEPT !.text = txt]
     ELSE [ret |-> (k = 2), raised |-> (k < 2), text |-> txt,
           selected |-> (k >= 1), pressed |-> (k >= 2)]

\* variant: the except clause answers True
verify_login_always(probe) == TRUE

\* _verify_login: findById raises when the element is absent
verify_login(probe) == (probe = "found")

\* variant: the handles are kept after CloseSession
close_connection_keeps_handles(conn, auto, ok) ==
  IF conn = "unset" \/ auto = "unset"
  THEN [connection |-> conn, SapGuiAuto |-> auto, issued |-> {}, closed |-> {}]
  ELSE IF conn = "None"
  THEN [connection |-> conn, SapGuiAuto |-> "None", issued |-> {}, closed |-> {}]
  ELSE IF ok
  THEN [connection |-> conn, SapGuiAuto |-> auto, issued |-> {conn},
        closed |-> {conn}]
  ELSE [connection |-> conn, SapGuiAuto |-> auto, issued |-> {conn},
        closed |-> {}]

\* close_connection: ok says whether CloseSession returns rather than raises
close_connection(conn, auto, ok) ==
  IF conn = "unset" \/ auto = "unset"
  THEN [connection |-> conn, SapGuiAuto |-> auto, issued |-> {}, closed |-> {}]
  ELSE IF conn = "None"
  THEN [connection |-> conn, SapGuiAuto |-> "None", issued |-> {}, closed |-> {}]
  ELSE IF ok
  THEN [connection |-> "None", SapGuiAuto |-> "None", issued |-> {conn},
        closed |-> {conn}]
  ELSE [connection |-> conn, SapGuiAuto |-> auto, issued |-> {conn},
        closed |-> {}]

\* `except <handler>` catches an exception of the kind: AttributeError,
\* NameError and the COM error are all subclasses of Exception
Catches(handler, kind) == handler = "Exception" \/ handler = kind

\* the exception the try body of close_connection raises, "none" if none
close_connection_raised(conn, auto, ok) ==
  IF conn = "unset" \/ auto = "unset" THEN "AttributeError"
  ELSE IF conn # "None" /\ ~ ok THEN "com_error"
  ELSE "none"

\* variant: the except clause names the COM error only
close_connection_escapes_com_only(conn, auto, ok) ==
  LET e == close_connection_raised(conn, auto, ok)
  IN IF e # "none" /\ ~ Catches("com_error", e) THEN e ELSE "none"

\* the exception close_connection lets through to its caller (line 376:
\* except Exception)
close_connection_escapes(conn, auto, ok) ==
  LET e == close_connection_raised(conn, auto, ok)
  IN IF e # "none" /\ ~ Catches("Exception", e) THEN e ELSE "none"

\* the exception sapLogout lets through to its caller (line 385)
sapLogout_escapes(sess, ok) ==
  LET e == IF sess = "unset" THEN "AttributeError"
           ELSE IF ~ ok THEN "com_error" ELSE "none"
  IN IF e # "none" /\ ~ Catches("Exception", e) THEN e ELSE "none"

\* the exception the finally block of main lets through (main.py line 58);
\* e1 and e2 are what sapLogout and close_connection let through
main_finally_escapes(bound, e1, e2) ==
  LET e == IF ~ bound THEN "NameError" ELSE IF e1 # "none" THEN e1 ELSE e2
  IN IF e # "none" /\ ~ Catches("Exception", e) THEN e ELSE "none"

\* sapLogout: the command is sent unless the session is missing or a call raises
sapLogout(sess, ok) == sess # "unset" /\ ok

\* variant: the finally block only releases
main_finally_release_only(bound) ==
  IF bound THEN <<"close_connection">> ELSE <<>>

\* the finally block of main: `sap` is unbound when SapGui(...) raised
main_finally(bound) ==
  IF bound THEN <<"sapLogout", "close_connection">> ELSE <<>>

\* -------------------------------------------------------------------- Init
InitDriver ==
  /\ pc = "start"
  /\ configResult = "none"
  /\ procs \in ProcessTables
  /\ drives = <<>>
  /\ absences = 0
  /\ retry_count = 0
  /\ attempts = 0
  /\ sleeps = 0
  /\ searches = 0
  /\ launches = 0
  /\ SapGuiAuto = "unset"
  /\ connection = "unset"
  /\ session = "unset"
  /\ opened = {}
  /\ closed = {}
  /\ closeCalls = [c \in {} |-> 0]
  /\ acq = "none"
  /\ fields = EmptyFields
  /\ submitted = <<>>
  /\ pwdWindow = "none"
  /\ pwdLabel = NoText
  /\ ncode = <<>>
  /\ ncod2 = <<>>
  /\ pwdPressed = FALSE
  /\ pwdProbe = "none"
  /\ multiWindow = "none"
  /\ multiText = NoText
  /\ multiSelected = FALSE
  /\ multiPressed = FALSE
  /\ verifyProbe = "none"
  /\ loginRaised = "none"
  /\ loginResult = "none"
  /\ closedByLogin = FALSE
  /\ logins = 0
  /\ calls = <<>>
  /\ loggedOut = FALSE
  /\ business = "none"
  /\ escaped = {}
  /\ launchedFrom = 0

WaitIdle == wait = [pc |-> "idle"]
GenIdle == gen = [pc |-> "idle"]
CellIdle == cell = [pc |-> "idle"]

InitRest == InitDriver /\ WaitIdle /\ GenIdle /\ CellIdle

Init == config = get_sap_config /\ InitRest

\* ----------------------------------------------------------------- actions
\* SapGui.__init__, first statement: config = SapConfig(**sap_args)
SapGui__init__ ==
  /\ pc = "start"
  /\ configResult' = SapConfig__post_init__(config)
  /\ IF configResult' = "ok"
     THEN pc' = "acquire" /\ acq' = acq
     ELSE pc' = "finally" /\ acq' = "raised"
  /\ UNCHANGED <<config, procs, drives, absences, retry_count, attempts, sleeps,
                 searches, launches, SapGuiAuto, connection, session, opened,
                 closed, closeCalls, loginVars, calls, loggedOut, business,
                 escaped, launchedFrom, utilVars>>

\* one iteration of the while loop of _initialize_connection
initialize_connection ==
  /\ pc = "acquire"
  /\ retry_count < DEFAULT_RETRY_ATTEMPTS
  /\ \E ds \in DriveLists :
     LET run == run_application(procs, ds, config.path)
         id  == Conn(attempts + 1)
         absent == /\ \A p \in procs : ~ Contains(Lower(config.path), Lower(p))
                   /\ \A i \in 1..Len(ds) : ~ ds[i]
     IN /\ attempts' = attempts + 1
        /\ procs' = run.procs
        /\ drives' = IF run.searched = 1 THEN ds ELSE drives
        /\ absences' = absences + (IF absent THEN 1 ELSE 0)
        /\ searches' = searches + run.searched
        /\ launches' = launches + run.launched
        /\ launchedFrom' = IF run.launched = 1 THEN run.from ELSE launchedFrom
        /\ \E o \in (IF run.ret THEN AttemptOutcomes ELSE {"getobject_raises"}) :
             LET b == IF run.ret
                      THEN attempt_body(o, id, SapGuiAuto, connection, session)
                      ELSE [SapGuiAuto |-> SapGuiAuto, connection |-> connection,
                            session |-> session, opened |-> {}, exit |-> "except"]
                 e == except_clause(retry_count)
             IN /\ SapGuiAuto' = b.SapGuiAuto
                /\ connection' = b.connection
                /\ session' = b.session
                /\ opened' = opened \cup b.opened
                /\ closeCalls' = [c \in opened' |-> IF c \in opened THEN closeCalls[c] ELSE 0]
                /\ IF b.exit = "return"
                   THEN /\ acq' = "returned"
                        /\ pc' = "login"
                        /\ UNCHANGED <<retry_count, sleeps>>
                   ELSE /\ retry_count' = e.retry_count
                        /\ sleeps' = sleeps + e.sleeps
                        /\ acq' = IF e.raise THEN "raised" ELSE acq
                        /\ pc' = IF e.raise THEN "finally" ELSE pc
  /\ UNCHANGED <<config, configResult, closed, loginVars, calls, loggedOut,
                 business, escaped, utilVars>>

acquireVars == <<config, configResult, procs, drives, absences, retry_count, attempts,
                 sleeps, searches, launches, opened, acq, launchedFrom, utilVars>>

\* sapLogin, credentials entry and submit; on an exception the handler of
\* sapLogin closes the connection and returns False, and main raises
sapLogin_credentials ==
  /\ pc = "login"
  /\ \E k \in (IF session = "unset" THEN {0} ELSE 0..5), ok \in BOOLEAN :
       LET r == credentials_entry(k, config, fields)
           c == close_connection(connection, SapGuiAuto, ok)
       IN /\ logins' = logins + 1
          /\ fields' = r.fields
          /\ submitted' = IF r.submitted THEN Append(submitted, r.fields.BCODE)
                          ELSE submitted
          /\ IF r.raised
             THEN /\ connection' = c.connection
                  /\ SapGuiAuto' = c.SapGuiAuto
                  /\ closed' = closed \cup c.closed
                  /\ closeCalls' = [x \in opened |->
                       IF x \in c.issued THEN closeCalls[x] + 1 ELSE closeCalls[x]]
                  /\ calls' = Append(calls, "close_connection")
                  /\ escaped' = escaped \cup
                       (IF close_connection_escapes(connection, SapGuiAuto, ok) # "none"
                        THEN {"close_connection"} ELSE {})
                  /\ closedByLogin' = TRUE
                  /\ loginRaised' = "credentials"
                  /\ loginResult' = "false"
                  /\ pc' = "finally"
             ELSE /\ pc' = "password_change"
                  /\ UNCHANGED <<connection, SapGuiAuto, closed, closeCalls,
                                 calls, closedByLogin, loginRaised, loginResult,
                                 escaped>>
  /\ UNCHANGED <<acquireVars, session, pwdWindow, pwdLabel, ncode, ncod2,
                 pwdPressed, pwdProbe, multiWindow, multiText, multiSelected,
                 multiPressed, verifyProbe, loggedOut, business>>

\* sapLogin, lines 334-335: handle_password_change and the return on False
sapLogin_password_change ==
  /\ pc = "password_change"
  /\ \E w \in WindowNames, lbl \in LabelTexts \cup {RaisesText},
        number \in Draws, loc \in Locales, i \in 1..Len(Clock),
        k \in 0..3, probe \in {"found", "absent", "raises"} :
       \E j \in i..Len(Clock) :
         LET pw == generate_password(number, loc, Clock[i], Clock[j])
             r  == handle_password_change(w, lbl, pw, k, probe)
         IN /\ config' = config_after_password_change(config, r)
            /\ pwdWindow' = w
            /\ pwdLabel' = r.label
            /\ ncode' = r.ncode
            /\ ncod2' = r.ncod2
            /\ pwdPressed' = r.pressed
            /\ pwdProbe' = r.probe
            /\ loginRaised' = IF r.raised THEN "password_change" ELSE loginRaised
            /\ IF r.ret
               THEN pc' = "multiple_login" /\ loginResult' = loginResult
               ELSE pc' = "finally" /\ loginResult' = "false"
  /\ UNCHANGED <<configResult, procs, drives, absences, retry_count, attempts,
                 sleeps, searches, launches, opened, acq, launchedFrom,
                 utilVars, SapGuiAuto, connection, session, closed,
                 closeCalls, fields, submitted, multiWindow, multiText,
                 multiSelected, multiPressed, verifyProbe, closedByLogin,
                 logins, calls, loggedOut, business, escaped>>

\* sapLogin, lines 338-341: _handle_multiple_login and the return on False
sapLogin_multiple_login ==
  /\ pc = "multiple_login"
  /\ \E w \in WindowNames, txt \in WindowTexts \cup {RaisesText}, k \in 0..2 :
       LET r == handle_multiple_login(w, txt, k)
       IN /\ multiWindow' = w
          /\ multiText' = r.text
          /\ multiSelected' = r.selected
          /\ multiPressed' = r.pressed
          /\ loginRaised' = IF r.raised THEN "multiple_login" ELSE loginRaised
          /\ IF r.ret
             THEN pc' = "verify" /\ loginResult' = loginResult
             ELSE pc' = "finally" /\ loginResult' = "false"
  /\ UNCHANGED <<acquireVars, SapGuiAuto, connection, session, closed,
                 closeCalls, fields, submitted, pwdWindow, pwdLabel, ncode,
                 ncod2, pwdPressed, pwdProbe, verifyProbe, closedByLogin,
                 logins, calls, loggedOut, business, escaped>>

\* sapLogin, line 339: return self._verify_login(); main raises on False
sapLogin_verify ==
  /\ pc = "verify"
  /\ \E probe \in {"found", "raises"} :
       /\ verifyProbe' = probe
       /\ loginRaised' = IF probe = "raises" THEN "verify" ELSE loginRaised
       /\ IF verify_login(probe)
          THEN pc' = "business" /\ loginResult' = "true"
          ELSE pc' = "finally" /\ loginResult' = "false"
  /\ UNCHANGED <<acquireVars, SapGuiAuto, connection, session, closed,
                 closeCalls, fields, submitted, pwdWindow, pwdLabel, ncode,
                 ncod2, pwdPressed, pwdProbe, multiWindow, multiText,
                 multiSelected, multiPressed, closedByLogin, logins, calls,
                 loggedOut, business, escaped>>

\* create_sales_order: returns, catches an exception of perform_operation or
\* input(), or is left by a KeyboardInterrupt; main reaches finally each time
create_sales_order ==
  /\ pc = "business"
  /\ business' \in {"created", "failed", "interrupted"}
  /\ pc' = "finally"
  /\ UNCHANGED <<acquireVars, SapGuiAuto, connection, session, closed,
                 closeCalls, loginVars, calls, loggedOut, escaped>>

\* the finally block of main: sapLogout, then close_connection
main_finally_block ==
  /\ pc = "finally"
  /\ \E okLogout \in BOOLEAN, ok \in BOOLEAN :
       LET cs == main_finally(acq = "returned")
           doLogout == \E n \in 1..Len(cs) : cs[n] = "sapLogout"
           doClose == \E n \in 1..Len(cs) : cs[n] = "close_connection"
           c == IF doClose THEN close_connection(connection, SapGuiAuto, ok)
                ELSE [connection |-> connection, SapGuiAuto |-> SapGuiAuto,
                      issued |-> {}, closed |-> {}]
           e1 == IF doLogout THEN sapLogout_escapes(session, okLogout) ELSE "none"
           e2 == IF doClose
                 THEN close_connection_escapes(connection, SapGuiAuto, ok)
                 ELSE "none"
       IN /\ calls' = calls \o cs
          /\ escaped' = escaped
               \cup (IF e1 # "none" THEN {"sapLogout"} ELSE {})
               \cup (IF e2 # "none" THEN {"close_connection"} ELSE {})
               \cup (IF main_finally_escapes(acq = "returned", e1, e2) # "none"
                     THEN {"main"} ELSE {})
          /\ loggedOut' = (loggedOut \/ (doLogout /\ sapLogout(session, okLogout)))
          /\ connection' = c.connection
          /\ SapGuiAuto' = c.SapGuiAuto
          /\ closed' = closed \cup c.closed
          /\ closeCalls' = [x \in opened |->
               IF x \in c.issued THEN closeCalls[x] + 1 ELSE closeCalls[x]]
  /\ pc' = "done"
  /\ UNCHANGED <<acquireVars, session, loginVars, business>>

Next ==
  \/ SapGui__init__
  \/ initialize_connection
  \/ sapLogin_credentials
  \/ sapLogin_password_change
  \/ sapLogin_multiple_login
  \/ sapLogin_verify
  \/ create_sales_order
  \/ main_finally_block

Spec == Init /\ [][Next]_vars

\* ---------------------------------------------------------------- SpecConfig
\* SapConfig construction applied to every configuration of Configs
InitConfig == config \in Configs /\ InitRest

SpecConfig == InitConfig /\ [][SapGui__init__]_vars

\* ---------------------------------------------------------------- SpecWait
\* wait_for_element, line 435: the loop test
\* variant: the bound included
loop_condition_inclusive(now, start_time, timeout) == now - start_time <= timeout

loop_condition(now, start_time, timeout) == now - start_time < timeout

\* what one findById probe does: the element, a falsy result, or an exception
ProbeOutcomes == {"found", "empty", "raises"}

InitWait ==
  /\ config = get_sap_config
  /\ InitDriver /\ GenIdle /\ CellIdle
  /\ \E t \in 0..MaxTimeout :
       wait = [pc |-> "start", timeout |-> t, now |-> 0, start_time |-> 0,
               probes |-> 0, slept |-> 0, sleptSinceProbe |-> FALSE,
               gaps |-> 0, found |-> FALSE, result |-> "none"]

\* line 434: start_time = time.time()
wait_for_element_start ==
  /\ wait.pc = "start"
  /\ wait' = [wait EXCEPT !.pc = "loop", !.start_time = wait.now]
  /\ UNCHANGED <<driverVars, gen, cell>>

\* lines 435-440: the loop test holds and the body probes once; the probe
\* takes d time units, and only the except branch sleeps
wait_for_element_probe ==
  /\ wait.pc = "loop"
  /\ loop_condition(wait.now, wait.start_time, wait.timeout)
  /\ wait.probes < MaxProbes
  /\ \E o \in ProbeOutcomes, d \in 0..MaxProbeTime :
       LET w == [wait EXCEPT
                   !.probes = @ + 1,
                   !.gaps = @ + (IF wait.probes >= 1 /\ ~ wait.sleptSinceProbe
                                 THEN 1 ELSE 0),
                   !.now = @ + d,
                   !.sleptSinceProbe = FALSE]
       IN wait' = CASE o = "found" ->
                         [w EXCEPT !.pc = "done", !.found = TRUE, !.result = "True"]
                    [] o = "empty" -> w
                    [] o = "raises" ->
                         [w EXCEPT !.now = @ + 1, !.slept = @ + 1,
                                   !.sleptSinceProbe = TRUE]
  /\ UNCHANGED <<driverVars, gen, cell>>

\* lines 435 and 441: the loop test fails, return False
wait_for_element_timeout ==
  /\ wait.pc = "loop"
  /\ ~ loop_condition(wait.now, wait.start_time, wait.timeout)
  /\ wait' = [wait EXCEPT !.pc = "done", !.result = "False"]
  /\ UNCHANGED <<driverVars, gen, cell>>

NextWait ==
  \/ wait_for_element_start
  \/ wait_for_element_probe
  \/ wait_for_element_timeout

SpecWait == InitWait /\ [][NextWait]_vars

\* ---------------------------------------------------------------- SpecPassword
\* generate_password called on its own; at is the instant of Clock at which the
\* call starts
InitPassword ==
  /\ config = get_sap_config
  /\ InitDriver /\ WaitIdle /\ CellIdle
  /\ \E at \in 1..Len(Clock) :
       gen = [pc |-> "setlocale", at |-> at, loc |-> "unset", number |-> 0,
              population |-> {}, i |-> 0, j |-> 0, result |-> <<>>]

\* lines 229-232: the Portuguese locale is set, or the system default stays
generate_password_setlocale ==
  /\ gen.pc = "setlocale"
  /\ \E loc \in Locales : gen' = [gen EXCEPT !.pc = "draw", !.loc = loc]
  /\ UNCHANGED <<driverVars, wait, cell>>

\* line 234: number = random.randrange(1, 999)
generate_password_draw ==
  /\ gen.pc = "draw"
  /\ \E number \in randrange(1, 999) :
       gen' = [gen EXCEPT !.pc = "month", !.number = number,
                          !.population = randrange(1, 999)]
  /\ UNCHANGED <<driverVars, wait, cell>>

\* line 235, first datetime.now(): the instant the month name is taken from
generate_password_month ==
  /\ gen.pc = "month"
  /\ \E i \in gen.at..Len(Clock) : gen' = [gen EXCEPT !.pc = "year", !.i = i]
  /\ UNCHANGED <<driverVars, wait, cell>>

\* line 235, second datetime.now(): the instant the year is taken from, and
\* the string returned
generate_password_year ==
  /\ gen.pc = "year"
  /\ \E j \in gen.i..Len(Clock) :
       gen' = [gen EXCEPT
                 !.pc = "done", !.j = j,
                 !.result = generate_password(gen.number, gen.loc,
                                              Clock[gen.i], Clock[j])]
  /\ UNCHANGED <<driverVars, wait, cell>>

NextPassword ==
  \/ generate_password_setlocale
  \/ generate_password_draw
  \/ generate_password_month
  \/ generate_password_year

SpecPassword == InitPassword /\ [][NextPassword]_vars

\* ---------------------------------------------------------------- SpecCell
\* set_cell_value called on its own on a table column of at most MaxRows rows
CellTexts == {<<>>, <<"x">>}
Columns == UNION {[1..n -> CellTexts] : n \in 0..MaxRows}
TextsToSet == {<<>>, <<"a">>}

\* variant: the test of the cell's text negated
cell_is_free_inverted(found, text) == ~ found \/ text # <<>>

\* line 533: `not cell or cell.Text == ""`; found says the cell object is truthy
cell_is_free(found, text) == ~ found \/ text = <<>>

InitCell ==
  /\ config = get_sap_config
  /\ InitDriver /\ WaitIdle /\ GenIdle
  /\ \E col \in Columns, text \in TextsToSet :
       cell = [pc |-> "loop", column |-> col, original |-> col, text |-> text,
               row_number |-> 0, written |-> {}, result |-> "none", ret |-> 0,
               fault |-> FALSE]

\* lines 530-531 and 542-544: findById raises, for a row past the end of the
\* column always; the except clause raises SapGuiError
set_cell_value_raise ==
  /\ cell.pc = "loop"
  /\ \E past \in BOOLEAN :
       /\ past = (cell.row_number >= Len(cell.column))
       /\ cell' = [cell EXCEPT !.pc = "done", !.result = "SapGuiError",
                               !.fault = @ \/ ~ past]
  /\ UNCHANGED <<driverVars, wait, gen>>

\* lines 530-533 and 540: the cell is found and is not free, row_number += 1
set_cell_value_next_row ==
  /\ cell.pc = "loop"
  /\ cell.row_number < Len(cell.column)
  /\ ~ cell_is_free(TRUE, cell.column[cell.row_number + 1])
  /\ cell' = [cell EXCEPT !.row_number = @ + 1]
  /\ UNCHANGED <<driverVars, wait, gen>>

\* lines 530-538: the cell is free; k of the four calls (Text, setFocus,
\* caretPosition, sendVKey) complete before one raises, none of them when the
\* cell object is falsy; with all four done row_number is returned
set_cell_value_write ==
  /\ cell.pc = "loop"
  /\ cell.row_number < Len(cell.column)
  /\ \E found \in BOOLEAN, k \in 0..4 :
       /\ cell_is_free(found, cell.column[cell.row_number + 1])
       /\ ~ found => k = 0
       /\ cell' = [cell EXCEPT
                     !.pc = "done",
                     !.column = IF k >= 1
                                THEN [@ EXCEPT ![cell.row_number + 1] = cell.text]
                                ELSE @,
                     !.written = IF k >= 1 THEN @ \cup {cell.row_number} ELSE @,
                     !.result = IF k = 4 THEN "returned" ELSE "SapGuiError",
                     !.ret = IF k = 4 THEN cell.row_number ELSE @,
                     !.fault = @ \/ k < 4]
  /\ UNCHANGED <<driverVars, wait, gen>>

NextCell ==
  \/ set_cell_value_raise
  \/ set_cell_value_next_row
  \/ set_cell_value_write

SpecCell == InitCell /\ [][NextCell]_vars

\* ---------------------------------------------------------------- SpecRelogin
\* sapLogin called up to MaxLogins times on one SapGui object, by a caller
\* other than main; the object is as SapGui(...) returns it when the
\* executable was already running and the first attempt succeeded
InitRelogin ==
  /\ config = get_sap_config
  /\ WaitIdle /\ GenIdle /\ CellIdle
  /\ pc = "login"
  /\ configResult = "ok"
  /\ procs = UNION ProcessTables
  /\ drives = <<>>
  /\ absences = 0
  /\ retry_count = 0
  /\ attempts = 1
  /\ sleeps = 0
  /\ searches = 0
  /\ launches = 0
  /\ launchedFrom = 0
  /\ SapGuiAuto = "dispatch"
  /\ connection = Conn(1)
  /\ session = Conn(1)
  /\ opened = {Conn(1)}
  /\ closed = {}
  /\ closeCalls = [c \in {Conn(1)} |-> 0]
  /\ acq = "returned"
  /\ fields = EmptyFields
  /\ submitted = <<>>
  /\ pwdWindow = "none"
  /\ pwdLabel = NoText
  /\ ncode = <<>>
  /\ ncod2 = <<>>
  /\ pwdPressed = FALSE
  /\ pwdProbe = "none"
  /\ multiWindow = "none"
  /\ multiText = NoText
  /\ multiSelected = FALSE
  /\ multiPressed = FALSE
  /\ verifyProbe = "none"
  /\ loginRaised = "none"
  /\ loginResult = "none"
  /\ closedByLogin = FALSE
  /\ logins = 0
  /\ calls = <<>>
  /\ loggedOut = FALSE
  /\ business = "none"
  /\ escaped = {}

\* sapLogin has returned and the caller calls it again on the same object; the
\* record of the password dialog stays until the new call reaches it
sapLogin_again ==
  /\ pc \in {"business", "finally"}
  /\ loginResult # "none"
  /\ logins < MaxLogins
  /\ pc' = "login"
  /\ loginRaised' = "none"
  /\ loginResult' = "none"
  /\ closedByLogin' = FALSE
  /\ multiWindow' = "none"
  /\ multiText' = NoText
  /\ multiSelected' = FALSE
  /\ multiPressed' = FALSE
  /\ verifyProbe' = "none"
  /\ UNCHANGED <<acquireVars, SapGuiAuto, connection, session, closed,
                 closeCalls, fields, submitted, pwdWindow, pwdLabel, ncode,
                 ncod2, pwdPressed, pwdProbe, logins, calls, loggedOut,
                 business, escaped>>

NextRelogin ==
  \/ sapLogin_credentials
  \/ sapLogin_password_change
  \/ sapLogin_multiple_login
  \/ sapLogin_verify
  \/ sapLogin_again

SpecRelogin == InitRelogin /\ [][NextRelogin]_vars

\* ================================================================== claims

\* C1: acquire ends in exactly one of two ways: it returns with a session
\* handle attached, or it raises after exactly 3 failed attempts; it never
\* returns without a session, never raises after fewer than 3 attempts and
\* never starts a 4th attempt.
C1_AcquireReturnsSessionOrRaisesAfterThree ==
  /\ attempts <= 3
  /\ (acq = "returned" => session # "unset")
  /\ (acq = "raised" => attempts = 3 /\ retry_count = 3)

\* C2 (as claimed): in every run in which login ran, sapLogout followed by
\* close_connection is invoked exactly once, whichever way login ended.
C2_TeardownExactlyOnce ==
  (pc = "done" /\ loginResult # "none")
    => calls = <<"sapLogout", "close_connection">>

\* C2 (amended): in every run in which login ran, the finally block invokes
\* sapLogout followed by close_connection exactly once; when a call of the
\* credentials entry raised, sapLogin's handler has called close_connection
\* once more before it, and in no other case.
C2_TeardownOnceAfterHandler ==
  (pc = "done" /\ loginResult # "none")
    => calls = (IF loginRaised = "credentials" THEN <<"close_connection">> ELSE <<>>)
               \o <<"sapLogout", "close_connection">>

C2_Witness ==
  /\ pc = "done"
  /\ loginRaised = "credentials"
  /\ calls = <<"close_connection", "sapLogout", "close_connection">>

\* C3: when no secondary window is active at either check of sapLogin, sapLogin
\* returns True if and only if verification ran and found the toolbar element
\* wnd[0]/tbar[0]/btn[15].
C3_NoSecondaryWindowVerificationDecides ==
  (loginResult # "none" /\ pwdWindow # "wnd[1]" /\ multiWindow # "wnd[1]")
    => (loginResult = "true" <=> verifyProbe = "found")

C3_Witness ==
  /\ loginResult = "true"
  /\ pwdWindow = "wnd[0]"
  /\ multiWindow = "wnd[0]"
  /\ verifyProbe = "found"

\* C4: a secondary window at the password-change check whose label does not
\* contain the new-password prompt text makes sapLogin fail: no new password is
\* written, the confirm button is not pressed, and neither the multi-session
\* check nor verification runs.
C4_UnrecognisedLabelFails ==
  (pwdWindow = "wnd[1]" /\ pwdLabel # NoText
     /\ ~ Contains(NOVA_SENHA, Lower(pwdLabel)))
    => /\ loginResult = "false"
       /\ ncode = <<>>
       /\ ncod2 = <<>>
       /\ ~ pwdPressed
       /\ multiWindow = "none"
       /\ verifyProbe = "none"

C4_Witness ==
  /\ pwdWindow = "wnd[1]"
  /\ pwdLabel = <<"e","r","r","o">>
  /\ loginResult = "false"
  /\ pc = "done"

\* C5: sapLogin never returns True when the multi-session check saw an active
\* secondary window whose text is neither the password-change prompt nor the
\* multiple-logon conflict message.
C5_UnexpectedDialogIsHardFailure ==
  (multiWindow = "wnd[1]" /\ multiText \in WindowTexts
     /\ ~ Contains(LOGON_MULTIPLO, Lower(multiText))
     /\ ~ Contains(NOVA_SENHA, Lower(multiText)))
    => loginResult # "true"

\* C6: SapConfig construction raises exactly when some field is empty, or the
\* client is not all digits, or the language does not have length 2.
C6_ConfigRejectedExactlyWhenInvalid ==
  configResult # "none"
    => ((configResult # "ok")
          <=> \/ \E f \in {"platform", "client", "username", "password",
                            "language", "path"} : Len(config[f]) = 0
              \/ \E i \in 1..Len(config.client) : config.client[i] \notin DigitChars
              \/ Len(config.language) # 2)

C6_Witness ==
  /\ configResult = "Language code must be 2 characters"
  /\ Len(config.language) = 1

\* at every attempt so far the executable was not running and no volume held it
ExecutableAbsent == attempts >= 1 /\ absences = attempts

\* C7 (as claimed): when the executable is not running and no volume contains
\* it, acquire fails at once: one search, no second attempt, no retry delay.
C7_NotFoundFailsAtOnce ==
  ExecutableAbsent
    => (acq = "raised" /\ attempts = 1 /\ searches = 1 /\ sleeps = 0)

\* C7 (amended): when the executable is not running and no volume contains it,
\* every attempt makes the volume search and fails, nothing is launched or
\* opened, the retry delay is slept after the first and the second attempt, and
\* acquire raises exactly when the third attempt has failed.
C7_NotFoundIsRetried ==
  ExecutableAbsent
    => /\ searches = attempts
       /\ launches = 0
       /\ opened = {}
       /\ acq # "returned"
       /\ (acq = "raised" <=> attempts = 3)
       /\ sleeps = (IF attempts = 3 THEN 2 ELSE attempts)

C7_Witness ==
  /\ ExecutableAbsent
  /\ acq = "raised"
  /\ attempts = 3
  /\ searches = 3
  /\ sleeps = 2

\* C8: every connection OpenConnection returned during acquire has been closed
\* by the time the driver exits (stated for the runs in which no CloseSession
\* call was left failed, so that a violation is a connection never released).
C8_EveryOpenedConnectionClosed ==
  (pc = "done" /\ \A c \in opened : closeCalls[c] > 0 => c \in closed)
    => opened \subseteq closed

\* C9: whenever a call raised in any state of sapLogin, sapLogin returns
\* failure and close_connection has been called by the time it returns.
C9_ExceptionInLoginClosesConnection ==
  (loginResult # "none" /\ loginRaised # "none")
    => (loginResult = "false" /\ closedByLogin)

\* C10: after the multi-session check, sapLogin goes on to verification when no
\* conflict dialog is present and when the conflict was resolved (option
\* selected, confirm pressed); when a call of the check raised, the exception
\* is captured, sapLogin returns failure and verification never runs.
C10_MultiSessionCheckOutcome ==
  (loginResult # "none" /\ multiWindow # "none")
    => /\ (\/ multiWindow = "wnd[0]"
           \/ (multiText \in WindowTexts
                 /\ ~ Contains(LOGON_MULTIPLO, Lower(multiText)))
           \/ (multiSelected /\ multiPressed))
          => verifyProbe # "none"
       /\ loginRaised = "multiple_login"
          => (loginResult = "false" /\ verifyProbe = "none" /\ ~ closedByLogin)

C10_Witness ==
  /\ multiWindow = "wnd[1]"
  /\ multiSelected
  /\ multiPressed
  /\ verifyProbe = "found"
  /\ loginResult = "true"

\* C11: in wait_for_element any two consecutive probes are separated by a
\* 1-time-unit sleep, whether the failed probe raised or returned an empty
\* result, so the number of probes is bounded by the timeout, and the call
\* ends with a boolean that is True only if some probe found the element.
C11_ProbesSeparatedBySleep ==
  wait.pc # "idle"
    => /\ wait.gaps = 0
       /\ wait.probes <= wait.timeout
       /\ wait.pc = "done" => wait.result \in {"True", "False"}
       /\ wait.result = "True" => wait.found

\* C12: wait_for_element called with timeout 0 returns False at once: no probe
\* is made and nothing is slept, whatever a probe would have found.
C12_ZeroTimeoutReturnsFalse ==
  (wait.pc # "idle" /\ wait.timeout = 0)
    => /\ wait.probes = 0
       /\ wait.slept = 0
       /\ wait.now = wait.start_time
       /\ wait.pc = "done" => wait.result = "False"

C12_Witness ==
  /\ wait.pc = "done"
  /\ wait.timeout = 0
  /\ wait.result = "False"

\* C13: both dialog detections of login are case-insensitive substring
\* matches: whenever the dialog text read contains the known phrase in any
\* letter case and no call raised, the dialog is handled (password prompt: both
\* fields written and confirm pressed; logon conflict: option selected and
\* confirm pressed).
C13_DialogDetectionCaseInsensitive ==
  /\ (/\ pwdWindow = "wnd[1]"
      /\ pwdLabel \in LabelTexts
      /\ Contains(NOVA_SENHA, Lower(pwdLabel))
      /\ loginRaised # "password_change")
       => (ncode # <<>> /\ ncod2 = ncode /\ pwdPressed)
  /\ (/\ multiWindow = "wnd[1]"
      /\ multiText \in WindowTexts
      /\ Contains(LOGON_MULTIPLO, Lower(multiText))
      /\ loginRaised # "multiple_login")
       => (multiSelected /\ multiPressed)

\* C14: the string generate_password returns is the decimal text of the draw,
\* the month name of one instant with its first letter capitalised, '#', and
\* the year of that same instant (draw 42 in December 2025 under the default
\* locale: "42December#2025").
C14_PasswordOfOneInstant ==
  gen.pc = "done"
    => /\ \E t \in 1..Len(Clock) :
            gen.result = Decimal(gen.number)
                           \o Capitalize(strftime_B(gen.loc, Clock[t]))
                           \o <<"#">> \o Decimal(Clock[t].year)
       /\ (gen.number = 42 /\ gen.loc = "default" /\ gen.i = 1 /\ gen.j = 1)
            => gen.result = <<"4","2","D","e","c","e","m","b","e","r","#",
                              "2","0","2","5">>

\* C15: the numeric prefix of a generated password is drawn from 1..999
\* inclusive: never below 1 or above 999, and every value of the range, 999
\* included, can be drawn.
C15_DrawIsOneTo999 ==
  gen.pc \in {"month", "year", "done"}
    => /\ gen.number \in 1..999
       /\ gen.population = 1..999

\* C16: teardown is best-effort: no call of sapLogout or close_connection
\* raises to its caller, whatever the session or connection does and also when
\* the attribute was never set by acquire, and nothing escapes the finally
\* block of the driver.
C16_TeardownNeverRaises == escaped = {}

C16_Witness ==
  /\ pc = "done"
  /\ acq = "returned"
  /\ session = "unset"
  /\ connection = "unset"
  /\ calls = <<"close_connection", "sapLogout", "close_connection">>
  /\ ~ loggedOut
  /\ escaped = {}

\* C17: when the password prompt is recognised, the one generated password is
\* in both the new-password and the confirm field before confirm is pressed;
\* login goes on to the multi-session check only if the toolbar element is
\* found after the press, and if it is absent login fails with neither the
\* multi-session check nor verification run.
C17_PasswordChangeReverified ==
  /\ ncod2 # <<>> => ncod2 = ncode
  /\ pwdPressed
       => /\ ncode = ncod2
          /\ \E number \in Draws, loc \in Locales, i, j \in 1..Len(Clock) :
               ncode = generate_password(number, loc, Clock[i], Clock[j])
          /\ prompt_recognised(pwdLabel)
          /\ multiWindow # "none" => pwdProbe = "found"
          /\ pwdProbe # "found"
               => /\ loginResult = "false"
                  /\ multiWindow = "none"
                  /\ verifyProbe = "none"

C17_Witness ==
  /\ pwdPressed
  /\ ncode # <<>>
  /\ pwdProbe = "absent"
  /\ loginResult = "false"
  /\ pc = "done"

\* C18: run_application starts nothing when a process whose name matches the
\* executable in any letter case is already running, and otherwise starts at
\* most one process, from the first drive in volume order that holds the
\* executable; with the started process staying in the process table, one
\* acquire call starts the executable at most once over all its attempts.
C18_LaunchAtMostOnce ==
  /\ launches <= 1
  /\ launches = 1
       => /\ launchedFrom \in 1..Len(drives)
          /\ drives[launchedFrom]
          /\ \A j \in 1..(launchedFrom - 1) : ~ drives[j]
          /\ config.path \in procs
  /\ (\E p \in procs \ {config.path} : Contains(Lower(config.path), Lower(p)))
       => (launches = 0 /\ searches = 0)

C18_Witness ==
  /\ launches = 1
  /\ launchedFrom = 2
  /\ attempts = 3
  /\ searches >= 2

\* C19: set_cell_value writes the text into the first empty cell of the column
\* and returns that cell's row number: every row before it is non-empty and
\* unchanged and exactly one cell is written; when no row of the column is
\* empty the call ends with SapGuiError, having scanned no further than the
\* end of the column and overwritten no non-empty cell.
C19_FirstEmptyCellWritten ==
  cell.pc # "idle"
    => LET orig == cell.original
           HasEmpty == \E i \in 1..Len(orig) : orig[i] = <<>>
       IN /\ Len(cell.column) = Len(orig)
          /\ cell.row_number <= Len(orig)
          /\ \A i \in 1..Len(orig) : orig[i] # <<>> => cell.column[i] = orig[i]
          /\ \A i \in 1..cell.row_number : orig[i] # <<>>
          /\ Cardinality(cell.written) <= 1
          /\ cell.result = "returned"
               => /\ cell.ret = cell.row_number
                  /\ cell.ret < Len(orig)
                  /\ orig[cell.ret + 1] = <<>>
                  /\ cell.written = {cell.ret}
                  /\ cell.column = [orig EXCEPT ![cell.ret + 1] = cell.text]
          /\ (cell.pc = "done" /\ ~ HasEmpty)
               => (cell.result = "SapGuiError" /\ cell.column = orig
                     /\ cell.written = {})
          /\ (cell.pc = "done" /\ HasEmpty /\ ~ cell.fault)
               => cell.result = "returned"

C19_Witness ==
  /\ cell.pc = "done"
  /\ cell.result = "returned"
  /\ cell.ret = 1
  /\ cell.original = <<(<<"x">>), (<<>>)>>
  /\ cell.column = <<(<<"x">>), (<<"a">>)>>

\* C20: close_connection is idempotent on a live connection: once CloseSession
\* has succeeded for a connection, no later close_connection call issues
\* CloseSession for it again, and from then on the connection and the
\* automation-root handles are cleared.
C20_CloseIsIdempotent ==
  /\ [](closed # {} => (connection = "None" /\ SapGuiAuto = "None"))
  /\ [][\A c \in closed : closeCalls'[c] = closeCalls[c]]_vars

C20_Witness ==
  /\ pc = "done"
  /\ loginRaised = "credentials"
  /\ closedByLogin
  /\ calls = <<"close_connection", "sapLogout", "close_connection">>
  /\ connection = "None"
  /\ SapGuiAuto = "None"
  /\ \E c \in closed : closeCalls[c] = 1

\* C21: a password change leaves the stored configuration unchanged: the
\* configuration is the one the object was built with, the password a pressed
\* password dialog holds is not config.password, and every sapLogin call on
\* the object, also one made after a password change was submitted, submits
\* config.password.
C21_PasswordChangeNotStored ==
  /\ config = get_sap_config
  /\ \A n \in 1..Len(submitted) : submitted[n] = config.password
  /\ pwdPressed => (ncode # config.password /\ ncod2 = ncode)

C21_Witness ==
  /\ logins = 2
  /\ Len(submitted) = 2
  /\ pwdPressed
  /\ pwdProbe = "found"
  /\ ncode # <<>>
  /\ submitted[2] = get_sap_config.password
  /\ submitted[2] # ncode
  /\ fields.BCODE = get_sap_config.password

====
